---- MODULE Spec2Model ----
(***************************************************************************)
(* Model of the SAP resource-assignment engine                             *)
(* (src/app/lib/assignment-calculator.ts) and of the upload endpoint       *)
(* (src/app/api/upload-parsed/route.ts).                                   *)
(*                                                                         *)
(* Representation.                                                         *)
(*   - A row is a record; a field the row does not carry is absent from    *)
(*     the record's domain (JavaScript: undefined).                        *)
(*   - Names, ids and projects are strings compared by equality only.      *)
(*   - modulo and grupo_dev are sequences of one-character strings, so     *)
(*     that toLowerCase and includes are computed, not assumed.            *)
(*   - Date columns hold strings; ParseDate gives the Date: a record       *)
(*     [valid, t], t in hours since the Unix epoch (getTime scaled by      *)
(*     1/3600000 so that the values fit TLC's integers); an unparseable    *)
(*     string gives the Invalid Date, whose getTime is NaN.                *)
(*   - Hours are non-negative integers (exact as doubles).  A load         *)
(*     percentage is an IEEE double, computed as the code computes it:     *)
(*     [kind, e, hi, lo] stands for (hi * 2^27 + lo) * 2^e, with a 53-bit  *)
(*     significand hi * 2^27 + lo; kind is "zero", "finite" or "inf".      *)
(***************************************************************************)
EXTENDS Integers, Sequences, FiniteSets, TLC

VARIABLES
    planType,       \* calculateAssignments: the planType argument
    now,            \* Date.now(), in hours since the epoch
    csvData,        \* calculateAssignments: the csvData argument of the current run
    pc,             \* position in calculateAssignments: "start", "assign", "done"
    resources,      \* performResourceAssignment: resourceMap, in insertion order
    tasks,          \* performResourceAssignment: tasks (extractor's order; mutated in place)
    idx,            \* performResourceAssignment: position of the for loop (1-based)
    assignedTasks,  \* performResourceAssignment: assignedTasks
    output,         \* the rows calculateAssignments returned
    run,            \* 1: first call, 2: the call on the first call's output
    firstOutput,    \* the rows the first call returned
    commits,        \* history: <<position in tasks, resource name>> of every engine commit
    divByZero,      \* history: line 260 divided by availableHours = 0
    body,           \* POST: the parsed JSON body of the request
    response        \* POST: the response, or NoResponse

vars == <<planType, now, csvData, pc, resources, tasks, idx, assignedTasks,
          output, run, firstOutput, commits, divByZero, body, response>>

----------------------------------------------------------------------------
(* Bounds *)

MaxRows == 3

MaxUploadRows == 2

----------------------------------------------------------------------------
(* JavaScript primitives *)

\* row[f] || '' rendered by String(): an absent field is the empty string.
GetStr(row, f) == IF f \in DOMAIN row THEN row[f] ELSE ""

\* String(row[f] || '') for a character-sequence field.
GetChars(row, f) == IF f \in DOMAIN row THEN row[f] ELSE <<>>

\* Number(row[f]) || 0: an absent field is NaN, which || turns into 0.
GetNum(row, f) == IF f \in DOMAIN row THEN row[f] ELSE 0

\* String.prototype.toLowerCase on one character.
LowerChar(c) ==
    CASE c = "A" -> "a" [] c = "B" -> "b" [] c = "C" -> "c" [] c = "E" -> "e"
      [] c = "F" -> "f" [] c = "I" -> "i" [] c = "M" -> "m" [] c = "O" -> "o"
      [] c = "R" -> "r" [] c = "S" -> "s" [] c = "D" -> "d" [] c = "P" -> "p"
      [] OTHER -> c

toLowerCase(s) == [i \in 1..Len(s) |-> LowerChar(s[i])]

\* String.prototype.includes: t occurs in s as a contiguous substring.
includes(s, t) ==
    \E i \in 0..(Len(s) - Len(t)) : SubSeq(s, i + 1, i + Len(t)) = t

\* String(n) for an array index.
IndexToString(n) ==
    CASE n = 0 -> "0" [] n = 1 -> "1" [] n = 2 -> "2" [] n = 3 -> "3"
      [] n = 4 -> "4" [] n = 5 -> "5" [] n = 6 -> "6" [] n = 7 -> "7"
      [] n = 8 -> "8" [] n = 9 -> "9"

HoursPerDay == 24

InvalidDate == [valid |-> FALSE, t |-> 0]

\* new Date(s) for the date strings of the model; 2030-01-01T00:00Z is hour 525960.
ParseDate(s) ==
    CASE s = "2030-01-03" -> [valid |-> TRUE, t |-> 525960 + 2 * HoursPerDay]
      [] s = "2030-01-05" -> [valid |-> TRUE, t |-> 525960 + 4 * HoursPerDay]
      [] s = "2030-01-20" -> [valid |-> TRUE, t |-> 525960 + 19 * HoursPerDay]
      [] s = "2030-02-15" -> [valid |-> TRUE, t |-> 525960 + 45 * HoursPerDay]
      [] s = "2030-03-01" -> [valid |-> TRUE, t |-> 525960 + 59 * HoursPerDay]
      [] OTHER -> InvalidDate

\* new Date(row[f] as string): an absent field gives the Invalid Date.
GetDate(row, f) == IF f \in DOMAIN row THEN ParseDate(row[f]) ELSE InvalidDate

\* Math.ceil(x / d) for d > 0.
CeilDiv(x, d) == -((-x) \div d)

----------------------------------------------------------------------------------------------------------------------------------------
(* IEEE 754 binary64 arithmetic on non-negative values, round to nearest,  *)
(* ties to even.  The 53-bit significand is kept in two limbs, hi of 26    *)
(* bits and lo of 27 bits.                                                 *)

DoubleZero == [kind |-> "zero", e |-> 0, hi |-> 0, lo |-> 0]

DoubleInfinity == [kind |-> "inf", e |-> 0, hi |-> 0, lo |-> 0]

Pow2(n) == 2 ^ n

\* The number of bits of n > 0.
RECURSIVE BitLength(_)
BitLength(n) == IF n = 0 THEN 0 ELSE 1 + BitLength(n \div 2)

\* The significand hi * 2^27 + lo, whose last bit has exponent e, rounded up
\* by one unit in the last place or left as it is.
RoundSignificand(hi, lo, e, roundUp) ==
    IF ~roundUp THEN [kind |-> "finite", e |-> e, hi |-> hi, lo |-> lo]
    ELSE IF lo + 1 < Pow2(27) THEN [kind |-> "finite", e |-> e, hi |-> hi, lo |-> lo + 1]
    ELSE IF hi + 1 < Pow2(26) THEN [kind |-> "finite", e |-> e, hi |-> hi + 1, lo |-> 0]
    ELSE [kind |-> "finite", e |-> e + 1, hi |-> Pow2(25), lo |-> 0]

\* The next n bits of rem / den (rem < den) appended to the bits of acc, and
\* the remainder left.
RECURSIVE LongDivision(_, _, _, _)
LongDivision(rem, den, n, acc) ==
    IF n = 0 THEN [bits |-> acc, rem |-> rem]
    ELSE IF 2 * rem >= den
    THEN LongDivision(2 * rem - den, den, n - 1, 2 * acc + 1)
    ELSE LongDivision(2 * rem, den, n - 1, 2 * acc)

\* The least s with a * 2^s >= b.
RECURSIVE ShiftsUp(_, _)
ShiftsUp(a, b) == IF a >= b THEN 0 ELSE 1 + ShiftsUp(2 * a, b)

\* The least s with a < b * 2^(s + 1).
RECURSIVE ShiftsDown(_, _)
ShiftsDown(a, b) == IF a < 2 * b THEN 0 ELSE 1 + ShiftsDown(a, 2 * b)

\* a / b for integers a >= 0 and b >= 0 that are not both 0.
DoubleDivide(a, b) ==
    IF b = 0 THEN DoubleInfinity
    ELSE IF a = 0 THEN DoubleZero
    ELSE LET up == ShiftsUp(a, b)
             down == ShiftsDown(a, b)
             num == a * Pow2(up)
             den == b * Pow2(down)
             \* den <= num < 2 * den: the first bit is 1
             h == LongDivision(num - den, den, 25, 1)
             l == LongDivision(h.rem, den, 27, 0)
             roundUp == 2 * l.rem > den \/ (2 * l.rem = den /\ l.bits % 2 = 1)
         IN RoundSignificand(h.bits, l.bits, down - up - 52, roundUp)

\* x * 100 for a double x >= 0.  The significand is cut into limbs of 17, 18
\* and 18 bits; the product has 59 or 60 bits, of which the last 6 or 7 are
\* rounded away.
DoubleTimes100(x) ==
    IF x.kind # "finite" THEN x
    ELSE LET m0 == x.lo % Pow2(18)
             m1 == (x.lo \div Pow2(18)) + (x.hi % Pow2(9)) * Pow2(9)
             m2 == x.hi \div Pow2(9)
             t0 == m0 * 100
             t1 == m1 * 100 + (t0 \div Pow2(18))
             t2 == m2 * 100 + (t1 \div Pow2(18))
             p0 == t0 % Pow2(18)
             p1 == t1 % Pow2(18)
             drop == BitLength(t2) + 36 - 53
             hi == t2 * Pow2(9 - drop) + (p1 \div Pow2(drop + 9))
             lo == (p1 % Pow2(drop + 9)) * Pow2(18 - drop) + (p0 \div Pow2(drop))
             guard == (p0 \div Pow2(drop - 1)) % 2
             sticky == p0 % Pow2(drop - 1) # 0
             roundUp == guard = 1 /\ (sticky \/ lo % 2 = 1)
         IN RoundSignificand(hi, lo, x.e + drop, roundUp)

\* The sign of x - y for doubles x, y >= 0; Infinity - Infinity is NaN, which
\* a sort takes as 0.
DoubleCompare(x, y) ==
    LET rank(k) == CASE k = "zero" -> 0 [] k = "finite" -> 1 [] k = "inf" -> 2
    IN IF x.kind # y.kind THEN (IF rank(x.kind) < rank(y.kind) THEN -1 ELSE 1)
       ELSE IF x.kind # "finite" THEN 0
       ELSE IF x.e # y.e THEN (IF x.e < y.e THEN -1 ELSE 1)
       ELSE IF x.hi # y.hi THEN (IF x.hi < y.hi THEN -1 ELSE 1)
       ELSE IF x.lo # y.lo THEN (IF x.lo < y.lo THEN -1 ELSE 1)
       ELSE 0

----------------------------------------------------------------------------
(* Array.prototype.sort as V8 runs it on an array shorter than 64 elements: *)
(* one run is counted (and reversed when strictly descending), the rest is  *)
(* inserted by binary insertion.  c[i][j] is the comparator's result on the *)
(* elements at positions i and j of the array before the sort (a NaN result *)
(* already turned into 0); w is the work array of those positions.          *)

RECURSIVE RunLength(_, _, _, _, _)
RunLength(c, n, isDescending, i, len) ==
    IF i > n THEN len
    ELSE LET order == c[i][i - 1]
         IN IF (isDescending /\ order >= 0) \/ (~isDescending /\ order < 0)
            THEN len
            ELSE RunLength(c, n, isDescending, i + 1, len + 1)

CountAndMakeRun(c, n) ==
    IF n = 1 THEN [w |-> <<1>>, len |-> 1]
    ELSE LET isDescending == c[2][1] < 0
             len == RunLength(c, n, isDescending, 3, 2)
         IN [w |-> [k \in 1..n |->
                      IF isDescending /\ k <= len THEN len + 1 - k ELSE k],
             len |-> len]

RECURSIVE BinarySearch(_, _, _, _, _)
BinarySearch(c, w, pivot, left, right) ==
    IF left >= right THEN left
    ELSE LET mid == left + ((right - left) \div 2)
         IN IF c[pivot][w[mid]] < 0
            THEN BinarySearch(c, w, pivot, left, mid)
            ELSE BinarySearch(c, w, pivot, mid + 1, right)

RECURSIVE BinaryInsertionSort(_, _, _, _)
BinaryInsertionSort(c, w, start, n) ==
    IF start > n THEN w
    ELSE LET pivot == w[start]
             left == BinarySearch(c, w, pivot, 1, start)
             moved == [k \in 1..n |->
                         IF k < left \/ k > start THEN w[k]
                         ELSE IF k = left THEN pivot
                         ELSE w[k - 1]]
         IN BinaryInsertionSort(c, moved, start + 1, n)

\* The permutation the sort applies: position k of the result holds the
\* element that was at position SortPermutation(c, n)[k].
SortPermutation(c, n) ==
    IF n < 2 THEN [k \in 1..n |-> k]
    ELSE LET r == CountAndMakeRun(c, n)
         IN BinaryInsertionSort(c, r.w, r.len + 1, n)

----------------------------------------------------------------------------
(* getPlanConfiguration *)

PlanDesarrollo ==
    [start_date_col |-> "plan_abap_dev_ini", end_date_col |-> "plan_abap_dev_fin",
     resource_col |-> "abap_asignado", hours_col |-> "plan_abap_dev_time",
     available_date_col |-> "esfu_disponible", plan_date_col |-> "plan_abap_dev_ini",
     module_col |-> "modulo", project_col |-> "proyecto"]

PlanPU ==
    [start_date_col |-> "plan_abap_pu_ini", end_date_col |-> "plan_abap_pu_fin",
     resource_col |-> "abap_asignado", hours_col |-> "plan_abap_pu_time",
     available_date_col |-> "esfu_disponible", plan_date_col |-> "plan_abap_pu_ini",
     module_col |-> "modulo", project_col |-> "proyecto"]

PlanTest ==
    [start_date_col |-> "available_test_date", end_date_col |-> "available_test_date",
     resource_col |-> "abap_asignado", hours_col |-> "plan_abap_dev_time",
     available_date_col |-> "esfu_disponible", plan_date_col |-> "available_test_date",
     module_col |-> "modulo", project_col |-> "proyecto"]

getPlanConfiguration(type) ==
    CASE type = "Plan de Desarrollo" -> PlanDesarrollo
      [] type = "Plan de PU" -> PlanPU
      [] type = "Plan de Test" -> PlanTest
      [] OTHER -> PlanDesarrollo

----------------------------------------------------------------------------
(* extractABAPResources *)

\* The guard of line 142: the name is none of the sentinels.
IsResourceName(name) == name # "" /\ name # "None" /\ name # "nan"

\* One iteration of the forEach of lines 137-163.
FoldResourceRow(map, row, planConfig) ==
    LET resourceName == GetStr(row, planConfig.resource_col)
        availableHours == GetNum(row, planConfig.available_date_col)
        grupo == GetChars(row, "grupo_dev")
        at == {i \in 1..Len(map) : map[i].name = resourceName}
    IN IF ~IsResourceName(resourceName) THEN map
       ELSE IF at = {}
       THEN Append(map, [name |-> resourceName, availableHours |-> availableHours,
                         assignedHours |-> 0, skills |-> <<grupo>>, currentLoad |-> DoubleZero])
       ELSE LET i == CHOOSE j \in at : TRUE
                existing == map[i]
                skills == IF \E k \in 1..Len(existing.skills) : existing.skills[k] = grupo
                          THEN existing.skills
                          ELSE Append(existing.skills, grupo)
                hours == IF availableHours > existing.availableHours
                         THEN availableHours
                         ELSE existing.availableHours
            IN [map EXCEPT ![i] = [existing EXCEPT !.skills = skills,
                                                   !.availableHours = hours]]

RECURSIVE FoldResources(_, _, _, _)
FoldResources(map, rows, k, planConfig) ==
    IF k > Len(rows) THEN map
    ELSE FoldResources(FoldResourceRow(map, rows[k], planConfig), rows, k + 1, planConfig)

extractABAPResources(rows, planConfig) == FoldResources(<<>>, rows, 1, planConfig)

----------------------------------------------------------------------------
(* calculatePriority and extractProjectTasks *)

calculatePriority(row, t) ==
    LET moduleName == toLowerCase(GetChars(row, "modulo"))
        p1 == IF includes(moduleName, <<"c", "o", "r", "e">>)
                 \/ includes(moduleName, <<"c", "r", "i", "t", "i", "c", "a", "l">>)
              THEN 10 ELSE 0
        hours == GetNum(row, "plan_abap_dev_time")
        p2 == IF hours > 40 THEN 5 ELSE 0
        startDate == GetDate(row, "plan_abap_dev_ini")
        daysUntilStart == CeilDiv(startDate.t - t, HoursPerDay)
        \* a NaN daysUntilStart fails both comparisons
        p3 == IF ~startDate.valid THEN 0
              ELSE IF daysUntilStart <= 7 THEN 15
              ELSE IF daysUntilStart <= 30 THEN 10
              ELSE 0
    IN p1 + p2 + p3

\* The filter of lines 176-180.
IsTaskRow(row, planConfig) ==
    GetStr(row, planConfig.project_col) # "" /\ GetNum(row, planConfig.hours_col) > 0

\* The positions of rows (ascending) that pass the filter.
RECURSIVE FilterPositions(_, _, _)
FilterPositions(rows, k, planConfig) ==
    IF k > Len(rows) THEN <<>>
    ELSE IF IsTaskRow(rows[k], planConfig)
    THEN <<k>> \o FilterPositions(rows, k + 1, planConfig)
    ELSE FilterPositions(rows, k + 1, planConfig)

\* row.id || index, rendered by String(): index is the 0-based position in
\* the filtered array.
TaskId(row, index) ==
    IF GetStr(row, "id") # "" THEN row.id ELSE IndexToString(index)

\* The map callback of lines 181-195; row is the source position (history,
\* not a field of ProjectTask).  endDate is never read and is left out.
MakeTask(rows, pos, index, planConfig, t) ==
    LET row == rows[pos]
    IN [id |-> TaskId(row, index),
        project |-> GetStr(row, planConfig.project_col),
        module |-> GetChars(row, planConfig.module_col),
        hours |-> GetNum(row, planConfig.hours_col),
        priority |-> calculatePriority(row, t),
        startDate |-> GetDate(row, planConfig.start_date_col),
        assignedResource |-> GetStr(row, planConfig.resource_col),
        row |-> pos]

\* The comparator of lines 196-202; a NaN difference counts as 0 in the sort.
CompareTasks(a, b) ==
    IF a.priority # b.priority THEN b.priority - a.priority
    ELSE IF a.startDate.valid /\ b.startDate.valid THEN a.startDate.t - b.startDate.t
    ELSE 0

extractProjectTasks(rows, planConfig, t) ==
    LET kept == FilterPositions(rows, 1, planConfig)
        n == Len(kept)
        mapped == [i \in 1..n |-> MakeTask(rows, kept[i], i - 1, planConfig, t)]
        c == [i \in 1..n |-> [j \in 1..n |-> CompareTasks(mapped[i], mapped[j])]]
        perm == SortPermutation(c, n)
    IN [k \in 1..n |-> mapped[perm[k]]]

----------------------------------------------------------------------------
(* findBestResource and the commit of performResourceAssignment *)

\* The guard of line 248: the task already names a resource.
IsAlreadyAssigned(task) ==
    task.assignedResource # "" /\ task.assignedResource # "None"

\* hasCapacity without the hours of the task at hand.
hasCapacity_IgnoresTaskHours(r, task) == r.assignedHours <= r.availableHours

hasCapacity(r, task) == r.assignedHours + task.hours <= r.availableHours

hasSkill(r, task) ==
    \E k \in 1..Len(r.skills) :
        \/ includes(toLowerCase(r.skills[k]), toLowerCase(task.module))
        \/ includes(toLowerCase(task.module), toLowerCase(r.skills[k]))

\* The filter callback without the capacity test.
IsAvailable_SkillOnly(r, task) == hasSkill(r, task) \/ Len(r.skills) = 0

\* The filter callback of lines 276-283.
IsAvailable(r, task) == hasCapacity(r, task) /\ (hasSkill(r, task) \/ Len(r.skills) = 0)

RECURSIVE AvailablePositions(_, _, _)
AvailablePositions(rs, task, k) ==
    IF k > Len(rs) THEN <<>>
    ELSE IF IsAvailable(rs[k], task)
    THEN <<k>> \o AvailablePositions(rs, task, k + 1)
    ELSE AvailablePositions(rs, task, k + 1)

\* The comparator of line 290, as the sort reads it: the sign of the difference.
CompareLoad(a, b) == DoubleCompare(a.currentLoad, b.currentLoad)

\* The position in rs of the resource findBestResource returns, 0 for null.
findBestResource(task, rs) ==
    LET avail == AvailablePositions(rs, task, 1)
        n == Len(avail)
        c == [i \in 1..n |-> [j \in 1..n |-> CompareLoad(rs[avail[i]], rs[avail[j]])]]
        perm == SortPermutation(c, n)
    IN IF n = 0 THEN 0 ELSE avail[perm[1]]

\* (assignedHours / availableHours) * 100 of line 260, in doubles; a positive
\* number divided by 0 is Infinity.
LoadPercent(assignedHours, availableHours) ==
    DoubleTimes100(DoubleDivide(assignedHours, availableHours))

\* Lines 258-260 applied to the resource at position i.
CommitResource(rs, i, task) ==
    LET hours == rs[i].assignedHours + task.hours
    IN [rs EXCEPT ![i] = [@ EXCEPT !.assignedHours = hours,
                                   !.currentLoad = LoadPercent(hours, rs[i].availableHours)]]

----------------------------------------------------------------------------
(* convertToOriginalFormat *)

\* assignmentMap.get(id): the value of the last assignment with that id
\* (a later Map entry replaces an earlier one), "" when there is none
\* (undefined, which || treats like the empty string).
AssignmentLookup(assignments, id) ==
    LET at == {i \in 1..Len(assignments) : assignments[i].id = id}
    IN IF at = {} THEN ""
       ELSE assignments[CHOOSE i \in at : \A j \in at : j <= i].assignedResource

\* The map callback of lines 304-307.
ProjectRow(assignments, row) ==
    LET looked == AssignmentLookup(assignments, GetStr(row, "id"))
        value == IF looked # "" THEN looked ELSE GetStr(row, "abap_asignado")
    IN [f \in DOMAIN row \cup {"abap_asignado"} |->
          IF f = "abap_asignado" THEN value ELSE row[f]]

\* The projection mapped over the assignments instead of the original rows.
convertToOriginalFormat_OverTasks(assignments, originalData) ==
    [i \in 1..Len(assignments) |-> ProjectRow(assignments, originalData[assignments[i].row])]

convertToOriginalFormat(assignments, originalData) ==
    [i \in 1..Len(originalData) |-> ProjectRow(assignments, originalData[i])]

----------------------------------------------------------------------------
(* Inputs *)

FI == <<"F", "I">>

fi == <<"f", "i">>

MM == <<"M", "M">>

CoreSD == <<"C", "o", "r", "e", "S", "D">>

\* Every sequence over S of length at most n.
SeqsUpTo(S, n) == UNION {[1..k -> S] : k \in 0..n}

\* Capacity and load: rows that only declare a resource, and unassigned tasks.
CapacityRows ==
    {[abap_asignado |-> a, esfu_disponible |-> h] :
        a \in {"Ana", "Bob"}, h \in {0, 10, 30}}
    \cup
    {[proyecto |-> "P", plan_abap_dev_time |-> h, abap_asignado |-> a,
      plan_abap_dev_ini |-> "2030-03-01"] :
        h \in {5, 10, 20}, a \in {"", "nan"}}

\* Identity: tasks with a missing, a repeated or an index-like id.
IdentityRows ==
    {[id |-> i, proyecto |-> "P", plan_abap_dev_time |-> 10, abap_asignado |-> a,
      esfu_disponible |-> 10, plan_abap_dev_ini |-> "2030-03-01"] :
        i \in {"0", "1"}, a \in {"", "Ana", "Bob"}}
    \cup
    {[proyecto |-> "P", plan_abap_dev_time |-> 10, abap_asignado |-> a,
      esfu_disponible |-> 10, plan_abap_dev_ini |-> "2030-03-01"] :
        a \in {"", "Ana", "Bob"}}
    \cup
    {[id |-> "7", abap_asignado |-> "Ana", esfu_disponible |-> 20]}

\* Skills: resource rows with and without a skill tag, tasks of several modules.
SkillRows ==
    {[abap_asignado |-> a, esfu_disponible |-> h, grupo_dev |-> g] :
        a \in {"Ana"}, h \in {10, 20}, g \in {FI, MM}}
    \cup
    {[abap_asignado |-> "None", esfu_disponible |-> 10, grupo_dev |-> FI]}
    \cup
    {[abap_asignado |-> a, esfu_disponible |-> 10] : a \in {"Ana", "nan"}}
    \cup
    {[id |-> "1", proyecto |-> "P", plan_abap_dev_time |-> 10, modulo |-> m,
      abap_asignado |-> "None", plan_abap_dev_ini |-> "2030-03-01"] :
        m \in {fi, MM, CoreSD}}

\* Order: unassigned tasks of several priorities and dates, one of them
\* without a parseable date, and a pre-assigned task that declares capacity.
OrderRows ==
    {[id |-> x[1], proyecto |-> "P", plan_abap_dev_time |-> 5,
      plan_abap_dev_ini |-> x[2]] :
        x \in {<<"a0", "">>, <<"a1", "2030-01-03">>, <<"a2", "2030-01-05">>,
               <<"a3", "2030-01-20">>, <<"a4", "2030-02-15">>, <<"a5", "2030-03-01">>}}
    \cup
    {[id |-> x[1], proyecto |-> "P", plan_abap_dev_time |-> 50,
      plan_abap_dev_ini |-> x[2]] :
        x \in {<<"b4", "2030-02-15">>, <<"b5", "2030-03-01">>}}
    \cup
    {[id |-> "c", proyecto |-> "P", plan_abap_dev_time |-> 5, modulo |-> CoreSD,
      plan_abap_dev_ini |-> "2030-03-01"]}
    \cup
    {[id |-> "r", proyecto |-> "P", plan_abap_dev_time |-> 5,
      abap_asignado |-> "Ana", esfu_disponible |-> 100]}

\* Plan types: rows that carry the columns of the other plans.
PlanRows ==
    {[id |-> "1", proyecto |-> "P", plan_abap_dev_time |-> 10, plan_abap_pu_time |-> 5,
      plan_abap_dev_ini |-> "2030-01-03", plan_abap_pu_ini |-> "2030-02-15",
      available_test_date |-> "2030-03-01"],
     [id |-> "2", proyecto |-> "P", plan_abap_dev_time |-> 50,
      plan_abap_dev_ini |-> "2030-03-01", plan_abap_pu_ini |-> "2030-01-03",
      available_test_date |-> "2030-01-20"],
     [id |-> "3", proyecto |-> "P", plan_abap_pu_time |-> 10,
      plan_abap_pu_ini |-> "2030-01-20"],
     [abap_asignado |-> "Ana", esfu_disponible |-> 20]}

PlanTypes == {"Plan de Desarrollo", "Plan de PU", "Plan de Test", "Plan de Soporte"}

NoResponse == [status |-> "none"]

----------------------------------------------------------------------------
(* calculateAssignments, one step per phase and one per loop iteration *)

Init ==
    /\ \/ /\ planType = "Plan de Desarrollo"
          /\ csvData \in SeqsUpTo(CapacityRows, MaxRows)
                         \cup SeqsUpTo(IdentityRows, MaxRows)
                         \cup SeqsUpTo(SkillRows, MaxRows)
                         \cup SeqsUpTo(OrderRows, MaxRows)
       \/ /\ planType \in PlanTypes
          /\ csvData \in SeqsUpTo(PlanRows, MaxRows)
    /\ now = 525960 + 12
    /\ pc = "start"
    /\ resources = <<>>
    /\ tasks = <<>>
    /\ idx = 1
    /\ assignedTasks = <<>>
    /\ output = <<>>
    /\ run = 1
    /\ firstOutput = <<>>
    /\ commits = <<>>
    /\ divByZero = FALSE
    /\ body = [kind |-> "none"]
    /\ response = NoResponse

\* Lines 56-58: an empty input returns an empty output.
ReturnEmpty ==
    /\ pc = "start"
    /\ Len(csvData) = 0
    /\ output' = <<>>
    /\ pc' = "done"
    /\ UNCHANGED <<planType, now, csvData, resources, tasks, idx, assignedTasks,
                   run, firstOutput, commits, divByZero, body, response>>

\* Lines 61-67 and 243-244: configuration, resources, tasks.
Extract ==
    /\ pc = "start"
    /\ Len(csvData) > 0
    /\ LET planConfig == getPlanConfiguration(planType)
       IN /\ resources' = extractABAPResources(csvData, planConfig)
          /\ tasks' = extractProjectTasks(csvData, planConfig, now)
    /\ idx' = 1
    /\ assignedTasks' = <<>>
    /\ commits' = <<>>
    /\ pc' = "assign"
    /\ UNCHANGED <<planType, now, csvData, output, run, firstOutput, divByZero,
                   body, response>>

\* Lines 248-251: a task that names a resource is pushed as it is.
SkipAssigned ==
    /\ pc = "assign"
    /\ idx <= Len(tasks)
    /\ IsAlreadyAssigned(tasks[idx])
    /\ assignedTasks' = Append(assignedTasks, tasks[idx])
    /\ idx' = idx + 1
    /\ UNCHANGED <<planType, now, csvData, pc, resources, tasks, output, run,
                   firstOutput, commits, divByZero, body, response>>

\* Lines 254-262: the best resource is committed to the task.
Commit ==
    /\ pc = "assign"
    /\ idx <= Len(tasks)
    /\ ~IsAlreadyAssigned(tasks[idx])
    /\ LET best == findBestResource(tasks[idx], resources)
       IN /\ best # 0
          /\ LET task == [tasks[idx] EXCEPT !.assignedResource = resources[best].name]
             IN /\ tasks' = [tasks EXCEPT ![idx] = task]
                /\ assignedTasks' = Append(assignedTasks, task)
          /\ resources' = CommitResource(resources, best, tasks[idx])
          /\ commits' = Append(commits, <<idx, resources[best].name>>)
          /\ divByZero' = (divByZero \/ resources[best].availableHours = 0)
    /\ idx' = idx + 1
    /\ UNCHANGED <<planType, now, csvData, pc, output, run, firstOutput, body, response>>

\* Lines 263-266: no resource is available; the task is pushed unassigned.
NoResource ==
    /\ pc = "assign"
    /\ idx <= Len(tasks)
    /\ ~IsAlreadyAssigned(tasks[idx])
    /\ findBestResource(tasks[idx], resources) = 0
    /\ assignedTasks' = Append(assignedTasks, tasks[idx])
    /\ idx' = idx + 1
    /\ UNCHANGED <<planType, now, csvData, pc, resources, tasks, output, run,
                   firstOutput, commits, divByZero, body, response>>

\* Lines 269 and 73: the loop is over; the rows are projected and returned.
Project ==
    /\ pc = "assign"
    /\ idx > Len(tasks)
    /\ output' = convertToOriginalFormat(assignedTasks, csvData)
    /\ pc' = "done"
    /\ UNCHANGED <<planType, now, csvData, resources, tasks, idx, assignedTasks,
                   run, firstOutput, commits, divByZero, body, response>>

\* The caller runs calculateAssignments again on the rows it returned.
Rerun ==
    /\ pc = "done"
    /\ run = 1
    /\ firstOutput' = output
    /\ csvData' = output
    /\ run' = 2
    /\ pc' = "start"
    /\ resources' = <<>>
    /\ tasks' = <<>>
    /\ idx' = 1
    /\ assignedTasks' = <<>>
    /\ commits' = <<>>
    /\ output' = <<>>
    /\ UNCHANGED <<planType, now, divByZero, body, response>>

Next ==
    \/ ReturnEmpty
    \/ Extract
    \/ SkipAssigned
    \/ Commit
    \/ NoResource
    \/ Project
    \/ Rerun

Spec == Init /\ [][Next]_vars

----------------------------------------------------------------------------
(* POST of the upload endpoint *)

requiredColumns ==
    <<"plannedAbapDevStart", "plannedAbapDevEnd", "abapAssigned", "abapDevelopmentTime">>

\* The values a column of an uploaded row takes in the model.
UploadValues(col) ==
    CASE col = "plannedAbapDevStart" -> {"2030-01-03", "n/a"}
      [] col = "plannedAbapDevEnd" -> {"", "2030-01-05"}
      [] col = "abapAssigned" -> {"Ana"}
      [] col = "abapDevelopmentTime" -> {"8", "abc"}

UploadColumns == {requiredColumns[k] : k \in 1..Len(requiredColumns)}

\* An element of body.data: null, a number, or an object over some columns.
UploadItems ==
    {[type |-> "null"], [type |-> "number"]}
    \cup
    {[type |-> "object", fields |-> r] :
        r \in {f \in UNION {[S -> UNION {UploadValues(col) : col \in UploadColumns}] :
                              S \in SUBSET UploadColumns} :
                 \A col \in DOMAIN f : f[col] \in UploadValues(col)}}

\* The parsed request: request.json() fails, or gives null, or an object
\* whose data is missing, a string, an object or an array.
Bodies ==
    {[kind |-> k] : k \in {"invalid-json", "null", "no-data", "string-data", "object-data"}}
    \cup
    {[kind |-> "array-data", data |-> d] : d \in SeqsUpTo(UploadItems, MaxUploadRows)}

\* Date.prototype.toISOString of a parsed date string of the model.
toISOString(s) ==
    CASE s = "2030-01-03" -> "2030-01-03T00:00:00.000Z"
      [] s = "2030-01-05" -> "2030-01-05T00:00:00.000Z"

\* parseFloat: a number, or NaN (valid = FALSE).
parseFloat(s) ==
    CASE s = "8" -> [valid |-> TRUE, v |-> 8]
      [] OTHER -> [valid |-> FALSE, v |-> 0]

\* The columns of requiredColumns, in order from position k, that row lacks.
RECURSIVE MissingColumns(_, _)
MissingColumns(fields, k) ==
    IF k > Len(requiredColumns) THEN <<>>
    ELSE IF requiredColumns[k] \in DOMAIN fields
    THEN MissingColumns(fields, k + 1)
    ELSE <<requiredColumns[k]>> \o MissingColumns(fields, k + 1)

\* validateSAPProjectData: the Error it throws, or "ok".
validateSAPProjectData(data) ==
    LET firstRow == data[1]
    IN IF firstRow.type # "object"
       THEN [thrown |-> TRUE,
             message |-> "Invalid data structure. Expected object with project data.",
             columns |-> <<>>]
       ELSE IF Len(MissingColumns(firstRow.fields, 1)) > 0
       THEN [thrown |-> TRUE, message |-> "Missing required columns: ",
             columns |-> MissingColumns(firstRow.fields, 1)]
       ELSE [thrown |-> FALSE, message |-> "", columns |-> <<>>]

\* The map callback of processSAPProjectData on an object (a number spreads
\* to the empty object).
ProcessRow(item) ==
    LET row == IF item.type = "object" THEN item.fields ELSE <<>>
    IN [col \in DOMAIN row |->
          IF col \in {"plannedAbapDevStart", "plannedAbapDevEnd"}
          THEN IF row[col] # "" /\ ParseDate(row[col]).valid
               THEN toISOString(row[col]) ELSE row[col]
          ELSE IF col = "abapDevelopmentTime"
          THEN IF row[col] # "" /\ parseFloat(row[col]).valid
               THEN parseFloat(row[col]).v ELSE row[col]
          ELSE row[col]]

ErrorResponse(status, message, columns) ==
    [status |-> status, success |-> FALSE, error |-> message, columns |-> columns,
     data |-> <<>>, count |-> 0]

\* The response of POST to a parsed request.
PostResponse(b) ==
    IF b.kind = "invalid-json"
    THEN ErrorResponse("INTERNAL_SERVER_ERROR", "Unexpected token in JSON", <<>>)
    ELSE IF b.kind = "null"
    THEN ErrorResponse("INTERNAL_SERVER_ERROR", "Cannot destructure property 'data'", <<>>)
    ELSE IF b.kind # "array-data"
    THEN ErrorResponse("BAD_REQUEST", "Invalid data format. Expected array of objects.", <<>>)
    ELSE IF Len(b.data) = 0
    THEN ErrorResponse("BAD_REQUEST", "No data provided.", <<>>)
    ELSE LET v == validateSAPProjectData(b.data)
         IN IF v.thrown
            THEN ErrorResponse("INTERNAL_SERVER_ERROR", v.message, v.columns)
            ELSE IF \E k \in 1..Len(b.data) : b.data[k].type = "null"
            THEN ErrorResponse("INTERNAL_SERVER_ERROR",
                               "Cannot read properties of null", <<>>)
            ELSE [status |-> "OK", success |-> TRUE, error |-> "", columns |-> <<>>,
                  data |-> [k \in 1..Len(b.data) |-> ProcessRow(b.data[k])],
                  count |-> Len(b.data)]

InitUpload ==
    /\ body \in Bodies
    /\ response = NoResponse
    /\ planType = "Plan de Desarrollo"
    /\ now = 525960 + 12
    /\ csvData = <<>>
    /\ pc = "idle"
    /\ resources = <<>>
    /\ tasks = <<>>
    /\ idx = 1
    /\ assignedTasks = <<>>
    /\ output = <<>>
    /\ run = 1
    /\ firstOutput = <<>>
    /\ commits = <<>>
    /\ divByZero = FALSE

POST ==
    /\ response = NoResponse
    /\ body.kind # "none"
    /\ response' = PostResponse(body)
    /\ UNCHANGED <<body, planType, now, csvData, pc, resources, tasks, idx,
                   assignedTasks, output, run, firstOutput, commits, divByZero>>

NextUpload == POST

SpecUpload == InitUpload /\ [][NextUpload]_vars

----------------------------------------------------------------------------
(* Claims *)

IsSentinel(name) == name = "" \/ name = "None" \/ name = "nan"

\* The hours of the tasks committed to the resource called name, over the
\* first k engine commits of the run.
RECURSIVE CommittedHours(_, _)
CommittedHours(name, k) ==
    IF k = 0 THEN 0
    ELSE CommittedHours(name, k - 1)
         + (IF commits[k][2] = name THEN tasks[commits[k][1]].hours ELSE 0)

\* C1: at every point of the loop of performResourceAssignment, every resource's
\* assignedHours is the sum of the hours of the tasks the engine committed to it
\* in this run, and does not exceed its availableHours.
C1_CapacityNeverExceeded ==
    \A i \in 1..Len(resources) :
        /\ resources[i].assignedHours = CommittedHours(resources[i].name, Len(commits))
        /\ resources[i].assignedHours <= resources[i].availableHours

\* A resource is filled to its capacity by two commits and a later task was refused.
C1_Witness ==
    /\ pc = "assign"
    /\ \E i \in 1..Len(resources) :
          /\ resources[i].assignedHours = resources[i].availableHours
          /\ Cardinality({k \in 1..Len(commits) : commits[k][2] = resources[i].name}) >= 2
    /\ Len(assignedTasks) > Len(commits)

\* C2: a task row that already names a non-sentinel assignee carries the same
\* assignee in the output, whatever the other rows are.
C2_PreAssignedSticky ==
    pc = "done" /\ Len(csvData) > 0 =>
        \A i \in 1..Len(csvData) :
            (/\ IsTaskRow(csvData[i], getPlanConfiguration(planType))
             /\ ~IsSentinel(GetStr(csvData[i], "abap_asignado")))
            => output[i].abap_asignado = csvData[i].abap_asignado

\* C3: every task the engine committed a resource to shows that resource's name
\* in the output row of its source row, also when the source row has no id.
C3_CommitProjected ==
    pc = "done" =>
        \A k \in 1..Len(commits) :
            output[tasks[commits[k][1]].row].abap_asignado = commits[k][2]

\* Eligibility as the claim words it.
C4_Eligible(r, task) ==
    /\ r.assignedHours + task.hours <= r.availableHours
    /\ \/ Len(r.skills) = 0
       \/ \E k \in 1..Len(r.skills) :
             \/ includes(toLowerCase(r.skills[k]), toLowerCase(task.module))
             \/ includes(toLowerCase(task.module), toLowerCase(r.skills[k]))

\* C4: a task whose assignee is empty or a sentinel goes to the eligible resource
\* of lowest load, the first encountered among equals, and stays unassigned when
\* no resource is eligible.
C4_LeastLoadedEligible ==
    [][(pc = "assign" /\ idx <= Len(tasks) /\ idx' = idx + 1
        /\ IsSentinel(tasks[idx].assignedResource))
       => LET task == tasks[idx]
              eligible == {i \in 1..Len(resources) : C4_Eligible(resources[i], task)}
          IN /\ eligible = {} =>
                    /\ assignedTasks'[idx].assignedResource = task.assignedResource
                    /\ resources' = resources
             /\ eligible # {} =>
                    \E i \in eligible :
                        /\ \A j \in eligible :
                              \/ DoubleCompare(resources[i].currentLoad,
                                               resources[j].currentLoad) < 0
                              \/ /\ resources[i].currentLoad = resources[j].currentLoad
                                 /\ i <= j
                        /\ assignedTasks'[idx].assignedResource = resources[i].name
                        /\ resources'[i].assignedHours
                             = resources[i].assignedHours + task.hours]_vars

\* C5: the second run, on the first run's output, returns the first run's output.
C5_SecondRunSameOutput ==
    pc = "done" /\ run = 2 => output = firstOutput

\* The skill tags of the rows called name, distinct, in first-encounter order;
\* a row without a tag contributes none.
RECURSIVE C6_Tags(_, _, _)
C6_Tags(rows, name, k) ==
    IF k = 0 THEN <<>>
    ELSE LET before == C6_Tags(rows, name, k - 1)
             tag == GetChars(rows[k], "grupo_dev")
         IN IF GetStr(rows[k], "abap_asignado") # name \/ tag = <<>>
               \/ \E j \in 1..Len(before) : before[j] = tag
            THEN before
            ELSE Append(before, tag)

\* C6: the rows of one non-sentinel name fold into one resource with the largest
\* availableHours observed and exactly their distinct skill tags in first-encounter
\* order; sentinel names produce no resource.
C6_ResourcesFolded ==
    pc = "assign" =>
        LET names == {GetStr(csvData[k], "abap_asignado") : k \in 1..Len(csvData)}
        IN /\ \A i \in 1..Len(resources) : ~IsSentinel(resources[i].name)
           /\ \A name \in names :
                 ~IsSentinel(name) =>
                     /\ Cardinality({i \in 1..Len(resources) :
                                       resources[i].name = name}) = 1
                     /\ \A i \in 1..Len(resources) :
                           resources[i].name = name =>
                               /\ resources[i].skills = C6_Tags(csvData, name, Len(csvData))
                               /\ \E k \in 1..Len(csvData) :
                                     /\ GetStr(csvData[k], "abap_asignado") = name
                                     /\ GetNum(csvData[k], "esfu_disponible")
                                          = resources[i].availableHours
                               /\ \A k \in 1..Len(csvData) :
                                     GetStr(csvData[k], "abap_asignado") = name
                                     => GetNum(csvData[k], "esfu_disponible")
                                          <= resources[i].availableHours

\* C7: the output has as many rows as the input, in the same order, and each
\* output row equals its input row on every field but abap_asignado.
C7_RowsPreserved ==
    pc = "done" =>
        /\ Len(output) = Len(csvData)
        /\ \A i \in 1..Len(output) :
              /\ DOMAIN output[i] \ {"abap_asignado"} = DOMAIN csvData[i] \ {"abap_asignado"}
              /\ \A f \in DOMAIN csvData[i] \ {"abap_asignado"} :
                    output[i][f] = csvData[i][f]

\* A run over three rows, one of them not a task, changed an assignee.
C7_Witness ==
    /\ pc = "done"
    /\ Len(csvData) = 3
    /\ Len(tasks) < Len(csvData)
    /\ \E i \in 1..Len(csvData) :
          output[i].abap_asignado # GetStr(csvData[i], "abap_asignado")

\* C8: non-array data, an empty array and a first row missing a required column
\* each answer success:false with a distinct message and the bad-request status;
\* the internal-error status is kept for internal faults.
C8_BadInputIsBadRequest ==
    response # NoResponse =>
        LET badInput ==
                \/ body.kind \in {"no-data", "string-data", "object-data"}
                \/ body.kind = "array-data" /\ Len(body.data) = 0
                \/ /\ body.kind = "array-data" /\ Len(body.data) > 0
                   /\ body.data[1].type = "object"
                   /\ ~(UploadColumns \subseteq DOMAIN body.data[1].fields)
        IN badInput => /\ response.success = FALSE
                       /\ response.status = "BAD_REQUEST"

\* C9: of two tasks with valid start dates that the engine commits in one run,
\* the one of higher priority is committed first, and of equal priorities the one
\* that starts earlier; a commitment made stays as it was made.
C9_CommitOrder ==
    /\ \A a, b \in 1..Len(commits) :
          LET ta == tasks[commits[a][1]]
              tb == tasks[commits[b][1]]
          IN (/\ ta.startDate.valid /\ tb.startDate.valid
              /\ \/ ta.priority > tb.priority
                 \/ ta.priority = tb.priority /\ ta.startDate.t < tb.startDate.t)
             => a < b
    /\ \A k \in 1..Len(commits) :
          /\ commits[k][1] <= Len(assignedTasks)
          /\ assignedTasks[commits[k][1]].assignedResource = commits[k][2]

\* The double 100.
C10_Hundred == DoubleDivide(100, 1)

\* C10: no load is computed by a division by zero; every resource's currentLoad
\* is a number (neither NaN nor Infinity), the double assignedHours /
\* availableHours * 100 when availableHours is not 0 and 0 when it is, between
\* 0 and 100; and the loads of two resources compare as their exact ratios
\* assignedHours / availableHours do.
C10_LoadDefined ==
    /\ ~divByZero
    /\ \A i \in 1..Len(resources) :
          LET r == resources[i]
          IN /\ r.currentLoad.kind \in {"zero", "finite"}
             /\ DoubleCompare(r.currentLoad, C10_Hundred) <= 0
             /\ r.assignedHours = 0 => r.currentLoad = DoubleZero
             /\ r.assignedHours # 0 =>
                    /\ r.availableHours # 0
                    /\ r.currentLoad # DoubleZero
                    /\ r.currentLoad
                         = DoubleTimes100(DoubleDivide(r.assignedHours, r.availableHours))
    /\ \A i, j \in 1..Len(resources) :
          LET a == resources[i]
              b == resources[j]
          IN (a.availableHours > 0 /\ b.availableHours > 0) =>
                 (DoubleCompare(a.currentLoad, b.currentLoad) < 0
                  <=> a.assignedHours * b.availableHours
                        < b.assignedHours * a.availableHours)

\* A resource with availableHours = 0, first in the map and of the lowest load,
\* was passed over: the commit went to the resource after it.
C10_Witness ==
    /\ pc = "assign"
    /\ Len(resources) = 2
    /\ resources[1].availableHours = 0
    /\ resources[2].currentLoad.kind = "finite"
    /\ Len(commits) = 1

====
